---- MODULE Spec2Model ----
(***************************************************************************)
(* Model of scripts/check-performance-regression.py: one run of main()     *)
(* (parse arguments, load two reports, compare, print, optional JSON,      *)
(* exit code) and, separately, the extractor applied to one text.          *)
(*                                                                         *)
(* Numbers.  A Python float that is a non-negative decimal or +inf is      *)
(* modelled as an exact fraction [n, d] in lowest terms; +inf is 1/0.      *)
(* Comparison is by cross multiplication, which for these values agrees    *)
(* with IEEE comparison (inf > x for finite x, inf > inf false).           *)
(* Rounding of binary floating point is not modelled.                      *)
(***************************************************************************)
EXTENDS Integers, Sequences, FiniteSets, TLC

VARIABLES args, pc, baseline, current, results, has_regression, compared,
          report, json_file, console, exit_code, exception,
          text, extracted

vars == <<args, pc, baseline, current, results, has_regression, compared,
          report, json_file, console, exit_code, exception, text, extracted>>

(***************************************************************************)
(* Bounds of the explored inputs                                           *)
(***************************************************************************)
MaxLines == 2

(***************************************************************************)
(* Numbers                                                                 *)
(***************************************************************************)
RECURSIVE GCD(_, _)
GCD(a, b) == IF b = 0 THEN a ELSE GCD(b, a % b)

Rat(n, d) == LET g == GCD(n, d) IN [n |-> n \div g, d |-> d \div g]

Inf == [n |-> 1, d |-> 0]

None == [none |-> TRUE]

Gt(a, b) == a.n * b.d > b.n * a.d

Lt(a, b) == a.n * b.d < b.n * a.d

One == Rat(1, 1)

(***************************************************************************)
(* float() and int() on the tokens the regular expressions capture         *)
(***************************************************************************)
Digits == {"0", "1", "2", "3", "4", "5", "6", "7", "8", "9"}

DigitValue == [c \in Digits |->
                 CASE c = "0" -> 0 [] c = "1" -> 1 [] c = "2" -> 2
                   [] c = "3" -> 3 [] c = "4" -> 4 [] c = "5" -> 5
                   [] c = "6" -> 6 [] c = "7" -> 7 [] c = "8" -> 8
                   [] c = "9" -> 9]

RECURSIVE DigitsToInt(_)
DigitsToInt(tok) ==
    IF tok = <<>> THEN 0
    ELSE 10 * DigitsToInt(SubSeq(tok, 1, Len(tok) - 1)) + DigitValue[tok[Len(tok)]]

RECURSIVE Pow10(_)
Pow10(k) == IF k = 0 THEN 1 ELSE 10 * Pow10(k - 1)

DotPositions(tok) == {i \in 1..Len(tok) : tok[i] = "."}

\* float(s) raises ValueError unless s is digits with at most one dot and at
\* least one digit ("30", "30.0", "30.", ".5" are numbers; ".", "1.2.3" are not)
FloatRaises(tok) ==
    \/ Cardinality(DotPositions(tok)) > 1
    \/ \A i \in 1..Len(tok) : tok[i] = "."

FloatOf(tok) ==
    LET dots == DotPositions(tok)
        p    == IF dots = {} THEN Len(tok) + 1 ELSE CHOOSE i \in dots : TRUE
        ip   == SubSeq(tok, 1, p - 1)
        fp   == SubSeq(tok, p + 1, Len(tok))
    IN  Rat(DigitsToInt(ip \o fp), Pow10(Len(fp)))

IntOf(tok) == DigitsToInt(tok)

(***************************************************************************)
(* Extractor: parse_performance_output                                     *)
(***************************************************************************)
KeyOrder == <<"unit_tests", "shared_tests", "integration_tests",
              "e2e_tests", "all_tests">>

Keys == {KeyOrder[i] : i \in 1..Len(KeyOrder)}

\* the label each pattern searches for
patterns == [k \in Keys |->
               CASE k = "unit_tests"        -> "1. Unit Tests Performance:"
                 [] k = "shared_tests"      -> "2. Shared Tests Performance:"
                 [] k = "integration_tests" -> "3. Integration Tests Performance:"
                 [] k = "e2e_tests"         -> "4. E2E Tests Performance:"
                 [] k = "all_tests"         -> "5. All Tests Combined:"]

\* A text is a sequence of timing blocks "<label>\n real <minutes>m<seconds>s";
\* minutes matches \d+ and seconds matches [\d.]+ .
\* re.search returns the leftmost match of the key's pattern (0: no match).
Search(k, output) ==
    LET hits == {i \in 1..Len(output) : output[i].label = patterns[k]}
    IN  IF hits = {} THEN 0 ELSE CHOOSE i \in hits : \A j \in hits : i <= j

TotalSeconds(line) ==
    LET minutes == IntOf(line.minutes)
        seconds == FloatOf(line.seconds)
    IN  Rat(minutes * 60 * seconds.d + seconds.n, seconds.d)

\* the loop of lines 27-33 raises ValueError as soon as a matched seconds
\* token is not a number; otherwise it returns the metrics dict
parse_performance_output(output) ==
    LET matched == {k \in Keys : Search(k, output) # 0}
    IN  IF \E k \in matched : FloatRaises(output[Search(k, output)].seconds)
        THEN [raised |-> TRUE, metrics |-> <<>>]
        ELSE [raised |-> FALSE,
              metrics |-> [k \in matched |-> TotalSeconds(output[Search(k, output)])]]

(***************************************************************************)
(* Loader: load_baseline, load_current.  A file is missing, unreadable or  *)
(* holds a text.                                                           *)
(***************************************************************************)
Missing == [kind |-> "missing"]

Unreadable == [kind |-> "unreadable"]

TextFile(t) == [kind |-> "text", content |-> t]

load_baseline(file) ==
    IF file.kind = "missing"
    THEN [metrics |-> <<>>, out |-> <<"Warning: Baseline file not found">>]
    ELSE IF file.kind = "unreadable"
    THEN [metrics |-> <<>>, out |-> <<"Error loading baseline">>]
    ELSE LET r == parse_performance_output(file.content)
         IN  IF r.raised
             THEN [metrics |-> <<>>, out |-> <<"Error loading baseline">>]
             ELSE [metrics |-> r.metrics, out |-> <<>>]

load_current(file) ==
    IF file.kind \in {"missing", "unreadable"}
    THEN [metrics |-> <<>>, out |-> <<"Error loading current metrics">>]
    ELSE LET r == parse_performance_output(file.content)
         IN  IF r.raised
             THEN [metrics |-> <<>>, out |-> <<"Error loading current metrics">>]
             ELSE [metrics |-> r.metrics, out |-> <<>>]

(***************************************************************************)
(* Comparator: check_regression                                            *)
(***************************************************************************)
\* Ratio without its zero guard turned into a neutral value
RatioZeroBaselineIsZero(current_time, baseline_time) ==
    IF baseline_time.n > 0
    THEN Rat(current_time.n * baseline_time.d, current_time.d * baseline_time.n)
    ELSE Rat(0, 1)

\* line 91: current_time / baseline_time if baseline_time > 0 else float('inf')
Ratio(current_time, baseline_time) ==
    IF baseline_time.n > 0
    THEN Rat(current_time.n * baseline_time.d, current_time.d * baseline_time.n)
    ELSE Inf

\* Status with >= in place of the strict comparison of line 94
StatusAtLeastThreshold(ratio, threshold) ==
    IF ~Lt(ratio, threshold) THEN "regression"
    ELSE IF Lt(ratio, One) THEN "improved"
    ELSE "stable"

\* lines 93-96
Status(ratio, threshold) ==
    IF Gt(ratio, threshold) THEN "regression"
    ELSE IF Lt(ratio, One) THEN "improved"
    ELSE "stable"

\* lines 81-86
NewRecord(current_time) ==
    [status |-> "new", current |-> current_time, baseline |-> None, ratio |-> None]

\* lines 89-103
ComparedRecord(current_time, baseline_time, threshold) ==
    LET ratio == Ratio(current_time, baseline_time)
    IN  [status   |-> Status(ratio, threshold),
         current  |-> current_time,
         baseline |-> baseline_time,
         ratio    |-> ratio]

\* the loop visiting only the keys both snapshots have
ComparedKeysCommon(base, cur) == DOMAIN cur \cap DOMAIN base

\* the keys the loop of line 79 visits
ComparedKeys(base, cur) == DOMAIN cur

check_regression(base, cur, threshold) ==
    LET res == [k \in ComparedKeys(base, cur) |->
                  IF k \notin DOMAIN base
                  THEN NewRecord(cur[k])
                  ELSE ComparedRecord(cur[k], base[k], threshold)]
    IN  [has_regression |-> \E k \in DOMAIN res : res[k].status = "regression",
         results        |-> res]

(***************************************************************************)
(* Reporter: print_results groups the records into four buckets, each in   *)
(* the iteration order of the results dict (the order of the patterns).    *)
(***************************************************************************)
\* print_results without its branch for 'stable'
BucketOfNoStable(data) ==
    IF data.status = "regression" THEN "regressions"
    ELSE IF data.status = "improved" THEN "improvements"
    ELSE "new_tests"

\* lines 129-137
BucketOf(data) ==
    IF data.status = "regression" THEN "regressions"
    ELSE IF data.status = "improved" THEN "improvements"
    ELSE IF data.status = "stable" THEN "stable"
    ELSE "new_tests"

Bucket(res, name) ==
    SelectSeq(KeyOrder, LAMBDA k : k \in DOMAIN res /\ BucketOf(res[k]) = name)

print_results(res) ==
    [printed      |-> TRUE,
     regressions  |-> Bucket(res, "regressions"),
     improvements |-> Bucket(res, "improvements"),
     stable       |-> Bucket(res, "stable"),
     new_tests    |-> Bucket(res, "new_tests")]

NoReport ==
    [printed |-> FALSE, regressions |-> <<>>, improvements |-> <<>>,
     stable |-> <<>>, new_tests |-> <<>>]

\* lines 219-222: sum(1 for r in results.values() if r['status'] == s)
CountStatus(res, s) == Cardinality({k \in DOMAIN res : res[k].status = s})

\* lines 213-224
output_data(threshold, has_reg, res) ==
    [threshold      |-> threshold,
     has_regression |-> has_reg,
     results        |-> res,
     summary        |-> [total_tests  |-> Cardinality(DOMAIN res),
                         regressions  |-> CountStatus(res, "regression"),
                         improvements |-> CountStatus(res, "improved"),
                         stable       |-> CountStatus(res, "stable"),
                         new          |-> CountStatus(res, "new")]]

NoFile == [written |-> FALSE]

(***************************************************************************)
(* Inputs of one run                                                       *)
(***************************************************************************)
\* --threshold is any float argparse accepts; 1.5 is the default
Thresholds == {Rat(1, 1), Rat(3, 2), Inf}

\* --json-output: "" stands for the option not given (None), which line 212
\* treats like the empty string; open() fails on the path in a missing directory
JsonPaths == {"", "results.json", "/no/such/dir/results.json"}

OpenForWriteRaises(path) == path = "/no/such/dir/results.json"

\* the labels occurring in the explored texts: two of the five patterns and a
\* line no pattern matches
Labels == {patterns["unit_tests"], patterns["all_tests"], "6. Lint Performance:"}

MinuteTokens == {<<"0">>, <<"1">>}

SecondsTokens == {<<"0">>, <<"3", "0", ".", "0">>, <<"3", "1", ".", "0">>,
                  <<"1", ".", "2", ".", "3">>}

Lines == [label : Labels, minutes : MinuteTokens, seconds : SecondsTokens]

Texts == UNION {[1..n -> Lines] : n \in 0..MaxLines}

Files == {Missing, Unreadable} \cup {TextFile(t) : t \in Texts}

\* what load_baseline / load_current return over all the files
BaselineLoads == {load_baseline(file) : file \in Files}

CurrentLoads == {load_current(file) : file \in Files}

(***************************************************************************)
(* main                                                                    *)
(***************************************************************************)
Init ==
    /\ args \in [threshold : Thresholds, fail_on_regression : BOOLEAN,
                 json_output : JsonPaths]
    /\ pc = "load_baseline"
    /\ baseline = <<>>
    /\ current = <<>>
    /\ results = <<>>
    /\ has_regression = FALSE
    /\ compared = FALSE
    /\ report = NoReport
    /\ json_file = NoFile
    /\ console = <<>>
    /\ exit_code = -1
    /\ exception = "none"
    /\ text = <<>>
    /\ extracted = None

\* line 192
LoadBaseline ==
    /\ pc = "load_baseline"
    /\ \E r \in BaselineLoads :
          /\ baseline' = r.metrics
          /\ console' = console \o r.out
    /\ pc' = "load_current"
    /\ UNCHANGED <<args, current, results, has_regression, compared, report,
                   json_file, exit_code, exception, text, extracted>>

\* line 193
LoadCurrent ==
    /\ pc = "load_current"
    /\ \E r \in CurrentLoads :
          /\ current' = r.metrics
          /\ console' = console \o r.out
    /\ pc' = "check_inputs"
    /\ UNCHANGED <<args, baseline, results, has_regression, compared, report,
                   json_file, exit_code, exception, text, extracted>>

\* the first-run dict built with a comparison status
FirstRunResultsStable(cur) ==
    [k \in DOMAIN cur |-> [NewRecord(cur[k]) EXCEPT !.status = "stable"]]

\* line 197: the dict handed to print_results on the first run
FirstRunResults(cur) == [k \in DOMAIN cur |-> NewRecord(cur[k])]

\* lines 195-199
FirstRun ==
    /\ pc = "check_inputs"
    /\ DOMAIN baseline = {}
    /\ results' = FirstRunResults(current)
    /\ report' = print_results(results')
    /\ console' = console \o <<"No baseline data available", "report">>
    /\ exit_code' = 0
    /\ pc' = "done"
    /\ UNCHANGED <<args, baseline, current, has_regression, compared,
                   json_file, exception, text, extracted>>

\* lines 201-203
NoCurrent ==
    /\ pc = "check_inputs"
    /\ DOMAIN baseline # {}
    /\ DOMAIN current = {}
    /\ console' = console \o <<"Error: No current performance data available">>
    /\ exit_code' = 1
    /\ pc' = "done"
    /\ UNCHANGED <<args, baseline, current, results, has_regression, compared,
                   report, json_file, exception, text, extracted>>

\* lines 205-209
Compare ==
    /\ pc = "check_inputs"
    /\ DOMAIN baseline # {}
    /\ DOMAIN current # {}
    /\ LET r == check_regression(baseline, current, args.threshold)
       IN  /\ has_regression' = r.has_regression
           /\ results' = r.results
    /\ compared' = TRUE
    /\ report' = print_results(results')
    /\ console' = console \o <<"report">>
    /\ pc' = "save_json"
    /\ UNCHANGED <<args, baseline, current, json_file, exit_code, exception,
                   text, extracted>>

\* line 212, option not given
SkipJson ==
    /\ pc = "save_json"
    /\ args.json_output = ""
    /\ pc' = "exit"
    /\ UNCHANGED <<args, baseline, current, results, has_regression, compared,
                   report, json_file, console, exit_code, exception, text,
                   extracted>>

\* lines 212-228
SaveJson ==
    /\ pc = "save_json"
    /\ args.json_output # ""
    /\ ~OpenForWriteRaises(args.json_output)
    /\ json_file' = [written |-> TRUE, path |-> args.json_output,
                     data |-> output_data(args.threshold, has_regression, results)]
    /\ console' = console \o <<"Detailed results saved">>
    /\ pc' = "exit"
    /\ UNCHANGED <<args, baseline, current, results, has_regression, compared,
                   report, exit_code, exception, text, extracted>>

\* line 226: open() raises, nothing catches it; the interpreter prints the
\* traceback and the process ends with status 1
SaveJsonRaises ==
    /\ pc = "save_json"
    /\ args.json_output # ""
    /\ OpenForWriteRaises(args.json_output)
    /\ exception' = "OSError"
    /\ exit_code' = 1
    /\ pc' = "done"
    /\ UNCHANGED <<args, baseline, current, results, has_regression, compared,
                   report, json_file, console, text, extracted>>

\* lines 231-239
ExitCode(has_reg, fail_on_regression) ==
    IF has_reg /\ fail_on_regression THEN 1 ELSE 0

Exit ==
    /\ pc = "exit"
    /\ exit_code' = ExitCode(has_regression, args.fail_on_regression)
    /\ console' = console \o
          <<IF has_regression /\ args.fail_on_regression
              THEN "Performance regression detected - failing build"
            ELSE IF has_regression
              THEN "Performance regression detected - but not failing build"
            ELSE "No performance regressions detected">>
    /\ pc' = "done"
    /\ UNCHANGED <<args, baseline, current, results, has_regression, compared,
                   report, json_file, exception, text, extracted>>

Next ==
    \/ LoadBaseline
    \/ LoadCurrent
    \/ FirstRun
    \/ NoCurrent
    \/ Compare
    \/ SkipJson
    \/ SaveJson
    \/ SaveJsonRaises
    \/ Exit

Spec == Init /\ [][Next]_vars

(***************************************************************************)
(* The extractor and the two loaders applied to one text                   *)
(***************************************************************************)
InitExtract ==
    /\ text \in Texts
    /\ pc = "extract"
    /\ extracted = None
    /\ args = [threshold |-> Rat(3, 2), fail_on_regression |-> FALSE,
               json_output |-> ""]
    /\ baseline = <<>>
    /\ current = <<>>
    /\ results = <<>>
    /\ has_regression = FALSE
    /\ compared = FALSE
    /\ report = NoReport
    /\ json_file = NoFile
    /\ console = <<>>
    /\ exit_code = -1
    /\ exception = "none"

Parse ==
    /\ pc = "extract"
    /\ LET r == parse_performance_output(text)
       IN  extracted' = [by |-> "parse_performance_output",
                         raised |-> r.raised, metrics |-> r.metrics]
    /\ pc' = "extracted"
    /\ UNCHANGED <<args, baseline, current, results, has_regression, compared,
                   report, json_file, console, exit_code, exception, text>>

ParseBaseline ==
    /\ pc = "extract"
    /\ LET r == load_baseline(TextFile(text))
       IN  /\ extracted' = [by |-> "load_baseline", raised |-> FALSE,
                            metrics |-> r.metrics]
           /\ console' = console \o r.out
    /\ pc' = "extracted"
    /\ UNCHANGED <<args, baseline, current, results, has_regression, compared,
                   report, json_file, exit_code, exception, text>>

ParseCurrent ==
    /\ pc = "extract"
    /\ LET r == load_current(TextFile(text))
       IN  /\ extracted' = [by |-> "load_current", raised |-> FALSE,
                            metrics |-> r.metrics]
           /\ console' = console \o r.out
    /\ pc' = "extracted"
    /\ UNCHANGED <<args, baseline, current, results, has_regression, compared,
                   report, json_file, exit_code, exception, text>>

NextExtract ==
    \/ Parse
    \/ ParseBaseline
    \/ ParseCurrent

SpecExtract == InitExtract /\ [][NextExtract]_vars

(***************************************************************************)
(* Properties                                                              *)
(***************************************************************************)
Sec(n) == Rat(n, 1)

Finite(x) == x.d # 0

InConsole(msg) == \E i \in 1..Len(console) : console[i] = msg

SeqToSet(q) == {q[i] : i \in 1..Len(q)}

BothLoaded == pc \in {"check_inputs", "save_json", "exit", "done"}

\* C1: whenever the current snapshot is empty after load, the run ends with
\* exit code 1, without a comparison and without a JSON file, whatever the
\* baseline snapshot and the options are.
C1_EmptyCurrentExitsOne ==
    (pc = "done" /\ DOMAIN current = {}) =>
        /\ exit_code = 1
        /\ ~compared
        /\ ~json_file.written

\* C2: whenever the baseline snapshot is empty, check_regression is not run,
\* every key of the current snapshot is reported as 'new' with baseline and
\* ratio absent, and the exit code is 0, whatever the current durations, the
\* threshold and --fail-on-regression are.
C2_EmptyBaselineFirstRun ==
    (BothLoaded /\ DOMAIN baseline = {}) =>
        /\ ~compared
        /\ pc \in {"check_inputs", "done"}
        /\ pc = "done" =>
              /\ exit_code = 0
              /\ exception = "none"
              /\ DOMAIN results = DOMAIN current
              /\ \A k \in DOMAIN current :
                    /\ results[k].status = "new"
                    /\ results[k].current = current[k]
                    /\ results[k].baseline = None
                    /\ results[k].ratio = None
              /\ report.printed
              /\ SeqToSet(report.new_tests) = DOMAIN current
              /\ report.regressions = <<>>
              /\ report.improvements = <<>>
              /\ report.stable = <<>>

C2_Witness ==
    /\ pc = "done"
    /\ DOMAIN baseline = {}
    /\ Cardinality(DOMAIN current) = 2
    /\ args.fail_on_regression
    /\ args.json_output # ""
    /\ InConsole("Error loading baseline")
    /\ exit_code = 0

\* C3: when both snapshots are non-empty, the exit code is 1 exactly when
\* --fail-on-regression is set and some comparison record has status
\* 'regression' (has_regression being the OR of those statuses); otherwise 0.
C3_ExitCodeIffFlagAndRegression ==
    (pc = "done" /\ DOMAIN baseline # {} /\ DOMAIN current # {}) =>
        /\ has_regression = (\E k \in DOMAIN results : results[k].status = "regression")
        /\ exit_code \in {0, 1}
        /\ exit_code = 1 <=>
              /\ args.fail_on_regression
              /\ \E k \in DOMAIN results : results[k].status = "regression"

\* C4: for every key of both snapshots with baseline > 0, the status is
\* 'regression' iff current/baseline > threshold, otherwise 'improved' iff
\* current/baseline < 1 and 'stable' iff current/baseline >= 1; 60s -> 90s at
\* threshold 1.5 is not a regression, 60s -> 91s is.
C4_StrictThresholdClassification ==
    compared =>
        \A k \in DOMAIN current \cap DOMAIN baseline :
            LET c == current[k]
                b == baseline[k]
                t == args.threshold
                above == c.n * b.d * t.d > t.n * c.d * b.n
                below == c.n * b.d < c.d * b.n
            IN  b.n > 0 =>
                  /\ results[k].ratio = Rat(c.n * b.d, c.d * b.n)
                  /\ (results[k].status = "regression") <=> above
                  /\ (results[k].status = "improved") <=> (~above /\ below)
                  /\ (results[k].status = "stable") <=> (~above /\ ~below)
                  /\ (b = Sec(60) /\ c = Sec(90) /\ t = Rat(3, 2)) =>
                        results[k].status = "stable"
                  /\ (b = Sec(60) /\ c = Sec(91) /\ t = Rat(3, 2)) =>
                        results[k].status = "regression"

C4_Witness ==
    /\ compared
    /\ args.threshold = Rat(3, 2)
    /\ DOMAIN baseline = {"unit_tests", "all_tests"}
    /\ DOMAIN current = {"unit_tests", "all_tests"}
    /\ baseline["unit_tests"] = Sec(60)
    /\ current["unit_tests"] = Sec(90)
    /\ results["unit_tests"].status = "stable"
    /\ baseline["all_tests"] = Sec(60)
    /\ current["all_tests"] = Sec(91)
    /\ results["all_tests"].status = "regression"

\* C5 as stated: for every key with baseline 0 and positive current, the ratio
\* is infinite, the status is 'regression' and has_regression is true, for
\* every threshold > 0.
C5_ZeroBaselineAlwaysRegression ==
    compared =>
        \A k \in DOMAIN current \cap DOMAIN baseline :
            (baseline[k].n = 0 /\ current[k].n > 0 /\ Gt(args.threshold, Sec(0))) =>
                /\ results[k].ratio = Inf
                /\ results[k].status = "regression"
                /\ has_regression

\* C5 amended: for every key with baseline 0 and positive current, the ratio
\* is infinite, the status is 'regression' and has_regression is true, for
\* every finite threshold > 0.
C5_ZeroBaselineRegressionFiniteThreshold ==
    compared =>
        \A k \in DOMAIN current \cap DOMAIN baseline :
            (/\ baseline[k].n = 0
             /\ current[k].n > 0
             /\ Gt(args.threshold, Sec(0))
             /\ Finite(args.threshold)) =>
                /\ results[k].ratio = Inf
                /\ results[k].status = "regression"
                /\ has_regression

C5_Witness ==
    /\ compared
    /\ Finite(args.threshold)
    /\ "unit_tests" \in DOMAIN current \cap DOMAIN baseline
    /\ baseline["unit_tests"] = Sec(0)
    /\ current["unit_tests"] = Sec(30)
    /\ results["unit_tests"].status = "regression"

\* C6: the keys of the result of check_regression are exactly the keys of the
\* current snapshot; a key is 'new' (baseline and ratio absent) iff it is
\* absent from the baseline, and every other record carries a baseline and a
\* ratio.
C6_ResultKeysAreCurrentKeys ==
    compared =>
        /\ DOMAIN results = DOMAIN current
        /\ \A k \in DOMAIN results :
              /\ (results[k].status = "new") <=> (k \notin DOMAIN baseline)
              /\ results[k].status = "new" =>
                    (results[k].baseline = None /\ results[k].ratio = None)
              /\ results[k].status # "new" =>
                    /\ results[k].baseline = baseline[k]
                    /\ results[k].baseline # None
                    /\ results[k].ratio # None

C6_Witness ==
    /\ compared
    /\ DOMAIN baseline = {"unit_tests"}
    /\ DOMAIN current = {"all_tests"}
    /\ DOMAIN results = {"all_tests"}
    /\ results["all_tests"].status = "new"

\* C7: whenever --json-output is given, a run that prints a results report
\* also writes the structured result to that path and reports the path on the
\* console, on every path that prints results, the first run included.
C7_JsonWrittenWheneverReportPrinted ==
    (pc = "done" /\ args.json_output # "" /\ report.printed) =>
        /\ json_file.written
        /\ InConsole("Detailed results saved")

\* C8: in every JSON file written, the summary counts equal the sizes of the
\* buckets of the printed report, they add up to total_tests, total_tests is
\* the number of keys of the current snapshot, and has_regression is true iff
\* regressions > 0.
C8_SummaryMatchesReport ==
    json_file.written =>
        LET summary == json_file.data.summary
        IN  /\ report.printed
            /\ summary.regressions = Len(report.regressions)
            /\ summary.improvements = Len(report.improvements)
            /\ summary.stable = Len(report.stable)
            /\ summary.new = Len(report.new_tests)
            /\ summary.total_tests = summary.regressions + summary.improvements
                                       + summary.stable + summary.new
            /\ summary.total_tests = Cardinality(DOMAIN current)
            /\ json_file.data.has_regression <=> summary.regressions > 0

C8_Witness ==
    /\ json_file.written
    /\ json_file.data.summary.total_tests = 2
    /\ json_file.data.summary.regressions = 1
    /\ json_file.data.summary.stable = 1
    /\ json_file.data.has_regression

\* C9: no file-I/O failure leaves main as an uncaught exception: every run
\* ends by returning 0 or 1 from one of the three terminal outcomes.
C9_NoUncaughtException ==
    pc = "done" =>
        /\ exception = "none"
        /\ exit_code \in {0, 1}

\* C10: extraction is independent per key: whether a key is in the snapshot,
\* and with which duration, depends only on that key's own labeled line; a key
\* whose line is absent or whose seconds token is not a number is omitted,
\* without an error and without the other keys being lost, by
\* parse_performance_output, load_baseline and load_current alike.
OwnLines(k, t) == SelectSeq(t, LAMBDA line : line.label = patterns[k])

YieldsDuration(k, t) ==
    /\ OwnLines(k, t) # <<>>
    /\ ~FloatRaises(Head(OwnLines(k, t)).seconds)

C10_ExtractionIndependentPerKey ==
    pc = "extracted" =>
        /\ ~extracted.raised
        /\ \A k \in Keys :
              IF YieldsDuration(k, text)
              THEN /\ k \in DOMAIN extracted.metrics
                   /\ extracted.metrics[k] = TotalSeconds(Head(OwnLines(k, text)))
              ELSE k \notin DOMAIN extracted.metrics

====
